---- MODULE Spec2Model ----
(***************************************************************************)
(* Budget tracker (App.tsx): the entity store, the month projector, the    *)
(* transaction form and the mutation handlers, the persistence effect and  *)
(* the debounced advice effect.                                            *)
(*                                                                         *)
(* Dates.  A JavaScript Date is an instant with millisecond resolution.    *)
(* It is modelled as [day, ms]: whole days since 1970-01-01 and the        *)
(* millisecond within the day, both read in the local time zone, which is  *)
(* taken to have a fixed offset (no daylight-saving jumps).  The `date`    *)
(* field of a transaction is the ISO string written by toISOString; it is  *)
(* modelled as the record of the string's fields and parsed back by        *)
(* ParseDate, as `new Date(t.date)` does.                                  *)
(***************************************************************************)
EXTENDS Integers, Sequences, FiniteSets, TLC

VARIABLES
    state,            \* AppState: hasOnboarded, monthlyIncome, currency, theme, categories, transactions
    currentDate,      \* the viewed month (a Date)
    now,              \* the wall clock read by `new Date()`
    isAddModalOpen,
    editingId,        \* Null or the id of the master being edited
    amount,           \* form field (string)
    description,      \* form field (string)
    selectedCategory, \* form field (category id or "")
    txType,
    isRecurring,
    recurrenceFreq,
    aiAdvice,         \* Null or the advice shown (the text names the request that produced it)
    isLoadingAdvice,
    timer,            \* TRUE while a debounce timer of the advice effect is pending
    inflight,         \* advice requests issued and not yet answered
    issued,           \* number of advice requests issued so far
    localStorage,     \* the saved AppState
    filterType,       \* 'all' | 'expense' | 'income'
    filterCategory,   \* 'all' or a category id
    filterRecurrence, \* 'all' | 'recurring' | 'non-recurring'
    lastOp,           \* the last handler that wrote the store: onboarding, save, delete (history variable)
    recognition,      \* the active SpeechRecognition: the categories its handlers see (seq 0: none active)
    voiceParses,      \* calls of parseTransactionFromText not yet answered (the categories passed)
    voiceStarted,     \* number of recognitions started so far
    voiceDraft        \* the answer of the voice parse that filled the form (history variable; seq 0: none)

vars == << state, currentDate, now, isAddModalOpen, editingId, amount, description,
           selectedCategory, txType, isRecurring, recurrenceFreq, aiAdvice,
           isLoadingAdvice, timer, inflight, issued, localStorage,
           filterType, filterCategory, filterRecurrence, lastOp,
           recognition, voiceParses, voiceStarted, voiceDraft >>

formVars == << editingId, amount, description, selectedCategory, txType, isRecurring, recurrenceFreq >>
adviceVars == << aiAdvice, isLoadingAdvice, timer, inflight, issued >>
filterVars == << filterType, filterCategory, filterRecurrence >>
voiceVars == << recognition, voiceParses, voiceStarted, voiceDraft >>

Null == "null"
NoRecognition == [seq |-> 0, categories |-> << >>]
NoDraft == [seq |-> 0, categoryName |-> "", type |-> ""]
Undefined == "undefined"

----------------------------------------------------------------------------
(* Bounds of the model *)

MaxTx == 2          \* masters in the store
MaxNav == 1         \* months the view may move away from the real current month
MaxRequests == 2    \* advice requests issued
MaxTicks == 1       \* clock steps
Horizon == 13       \* target months examined after the real current month

----------------------------------------------------------------------------
(* Calendar arithmetic of the JavaScript Date object *)

Min(a, b) == IF a < b THEN a ELSE b

Leaps(y) == (y \div 4) - (y \div 100) + (y \div 400)

IsLeap(y) == (y % 4 = 0 /\ y % 100 # 0) \/ y % 400 = 0

DaysInMonth(y, m) ==
    IF m = 1 THEN (IF IsLeap(y) THEN 29 ELSE 28)
    ELSE IF m \in {3, 5, 8, 10} THEN 30 ELSE 31

DaysBeforeYear(y) == 365 * (y - 1970) + Leaps(y - 1) - Leaps(1969)

\* days of the year before month m (0-based; 12 is the whole year)
CumDays ==
    [leap \in BOOLEAN |->
        [m \in 0..12 |->
            IF leap
            THEN << 0, 31, 60, 91, 121, 152, 182, 213, 244, 274, 305, 335, 366 >>[m + 1]
            ELSE << 0, 31, 59, 90, 120, 151, 181, 212, 243, 273, 304, 334, 365 >>[m + 1]]]

DaysBeforeMonth(y, m) == CumDays[IsLeap(y)][m]

\* MakeDay of ECMAScript: month and day may lie outside their ranges and are
\* carried into the year and the month (month 12 is January of the next
\* year, day 0 is the last day of the previous month, day 31 of a 30-day
\* month is the 1st of the next).
MakeDay(y, m, d) ==
    LET yy == y + (m \div 12)
        mm == m % 12
    IN  DaysBeforeYear(yy) + DaysBeforeMonth(yy, mm) + d - 1

getFullYear(dt) ==
    LET g == 1970 + (dt.day \div 365)
    IN  IF DaysBeforeYear(g) <= dt.day THEN g ELSE g - 1

getMonth(dt) ==
    LET y == getFullYear(dt)
        r == dt.day - DaysBeforeYear(y)
        cum == CumDays[IsLeap(y)]
    IN  CHOOSE m \in 0..11 : cum[m] <= r /\ r < cum[m + 1]

getDate(dt) ==
    LET y == getFullYear(dt)
    IN  dt.day - DaysBeforeYear(y) - DaysBeforeMonth(y, getMonth(dt)) + 1

getHours(dt) == dt.ms \div 3600000
getMinutes(dt) == (dt.ms \div 60000) % 60
getSeconds(dt) == (dt.ms \div 1000) % 60
getMilliseconds(dt) == dt.ms % 1000

\* new Date(year, month, day, hours, minutes): seconds and milliseconds are 0
NewDate(y, m, d, h, mi) == [day |-> MakeDay(y, m, d), ms |-> (h * 60 + mi) * 60000]

\* date.setMonth(m): same day-of-month and time of day, carried if it overflows
setMonth(dt, m) == [day |-> MakeDay(getFullYear(dt), m, getDate(dt)), ms |-> dt.ms]

\* date.setDate(d)
setDate(dt, d) == [day |-> MakeDay(getFullYear(dt), getMonth(dt), d), ms |-> dt.ms]

\* date.toISOString(): the fields of "YYYY-MM-DDTHH:mm:ss.sssZ" (month 1-based)
toISOString(dt) ==
    [Y |-> getFullYear(dt), M |-> getMonth(dt) + 1, D |-> getDate(dt),
     h |-> getHours(dt), m |-> getMinutes(dt), s |-> getSeconds(dt),
     ms |-> getMilliseconds(dt)]

\* new Date(isoString)
ParseDate(iso) ==
    [day |-> MakeDay(iso.Y, iso.M - 1, iso.D),
     ms |-> ((iso.h * 60 + iso.m) * 60 + iso.s) * 1000 + iso.ms]

\* the sign of a.getTime() - b.getTime()
TimeBefore(a, b) == a.day < b.day \/ (a.day = b.day /\ a.ms < b.ms)

MonthIndex(y, m) == y * 12 + m

----------------------------------------------------------------------------
(* The month projector (currentMonthTransactions) *)

\* Entries carry the position of their master in state.transactions as `src`
\* (a history tag, dropped by currentMonthTransactions).
Tagged(txs) == [i \in 1..Len(txs) |-> [src |-> i, tx |-> txs[i]]]

\* mutant: the month is compared, the year is not
regularTransactions_MonthOnly(txs, year, month) ==
    SelectSeq(Tagged(txs), LAMBDA e :
        IF e.tx.isRecurring THEN FALSE
        ELSE getMonth(ParseDate(e.tx.date)) = month)

regularTransactions(txs, year, month) ==
    SelectSeq(Tagged(txs), LAMBDA e :
        IF e.tx.isRecurring THEN FALSE
        ELSE LET tDate == ParseDate(e.tx.date)
             IN  getMonth(tDate) = month /\ getFullYear(tDate) = year)

\* mutant: the day of the anchor is not clamped to the length of the month
projectOne_NoClamp(t, year, month) ==
    LET tDate == ParseDate(t.date)
        startYear == getFullYear(tDate)
        startMonth == getMonth(tDate)
    IN  IF startYear > year \/ (startYear = year /\ startMonth > month) THEN << >>
        ELSE IF t.recurrence = "monthly" \/ t.recurrence = Undefined
        THEN LET projectedDate == NewDate(year, month, getDate(tDate), getHours(tDate), getMinutes(tDate))
             IN  << [t EXCEPT !.date = toISOString(projectedDate)] >>
        ELSE IF getMonth(tDate) = month /\ getFullYear(tDate) = year THEN << t >>
        ELSE << >>

\* mutant: every recurring master is expanded monthly, whatever its frequency
projectOne_AllMonthly(t, year, month) ==
    LET tDate == ParseDate(t.date)
        startYear == getFullYear(tDate)
        startMonth == getMonth(tDate)
        daysInCurrentMonth == getDate(NewDate(year, month + 1, 0, 0, 0))
    IN  IF startYear > year \/ (startYear = year /\ startMonth > month) THEN << >>
        ELSE LET targetDay == Min(getDate(tDate), daysInCurrentMonth)
                 projectedDate == NewDate(year, month, targetDay, getHours(tDate), getMinutes(tDate))
             IN  << [t EXCEPT !.date = toISOString(projectedDate)] >>

\* the body of the flatMap: the entries one recurring master contributes
projectOne(t, year, month) ==
    LET tDate == ParseDate(t.date)
        startYear == getFullYear(tDate)
        startMonth == getMonth(tDate)
        daysInCurrentMonth == getDate(NewDate(year, month + 1, 0, 0, 0))
    IN  IF startYear > year \/ (startYear = year /\ startMonth > month) THEN << >>
        ELSE IF t.recurrence = "monthly" \/ t.recurrence = Undefined
        THEN LET targetDay == Min(getDate(tDate), daysInCurrentMonth)
                 projectedDate == NewDate(year, month, targetDay, getHours(tDate), getMinutes(tDate))
             IN  << [t EXCEPT !.date = toISOString(projectedDate)] >>
        ELSE IF getMonth(tDate) = month /\ getFullYear(tDate) = year THEN << t >>
        ELSE << >>

projectedRecurring(txs, year, month) ==
    LET RECURSIVE go(_)
        go(i) == IF i > Len(txs) THEN << >>
                 ELSE (IF txs[i].isRecurring
                       THEN [k \in 1..Len(projectOne(txs[i], year, month)) |->
                                [src |-> i, tx |-> projectOne(txs[i], year, month)[k]]]
                       ELSE << >>) \o go(i + 1)
    IN  go(1)

\* mutant: the comparator is a.time - b.time (earliest first)
RECURSIVE InsertDesc_Ascending(_, _)
InsertDesc_Ascending(sorted, e) ==
    IF sorted = << >> THEN << e >>
    ELSE IF TimeBefore(ParseDate(e.tx.date), ParseDate(Head(sorted).tx.date))
         THEN << e >> \o sorted
         ELSE << Head(sorted) >> \o InsertDesc_Ascending(Tail(sorted), e)

\* Array.prototype.sort with the comparator (a, b) => b.time - a.time: a
\* stable sort, latest first; equal times keep their order in the input.
RECURSIVE InsertDesc(_, _)
InsertDesc(sorted, e) ==
    IF sorted = << >> THEN << e >>
    ELSE IF TimeBefore(ParseDate(Head(sorted).tx.date), ParseDate(e.tx.date))
         THEN << e >> \o sorted
         ELSE << Head(sorted) >> \o InsertDesc(Tail(sorted), e)

RECURSIVE SortDesc(_)
SortDesc(s) ==
    IF s = << >> THEN << >>
    ELSE InsertDesc(SortDesc(SubSeq(s, 1, Len(s) - 1)), s[Len(s)])

\* mutant: the projected recurring entries are put before the one-off entries
ProjectTagged_RecurringFirst(txs, year, month) ==
    LET all == projectedRecurring(txs, year, month) \o regularTransactions(txs, year, month)
    IN  SortDesc(all)

ProjectTagged(txs, year, month) ==
    LET all == regularTransactions(txs, year, month) \o projectedRecurring(txs, year, month)
    IN  SortDesc(all)

Project(txs, year, month) ==
    LET p == ProjectTagged(txs, year, month)
    IN  [k \in 1..Len(p) |-> p[k].tx]

currentMonthTagged == ProjectTagged(state.transactions, getFullYear(currentDate), getMonth(currentDate))

currentMonthTransactions == Project(state.transactions, getFullYear(currentDate), getMonth(currentDate))

----------------------------------------------------------------------------
(* The dashboard: filters, totals, category budgets.  Amounts are numbers   *)
(* (a master is only written with a non-empty amount of a number field);   *)
(* a quotient is kept exact, as numerator and denominator.                 *)

\* mutant: the type filter is not applied
Filter_NoType(list, fType, fCategory, fRecurrence) ==
    SelectSeq(list, LAMBDA t :
        IF fCategory # "all" /\ t.categoryId # fCategory THEN FALSE
        ELSE IF fRecurrence = "recurring" /\ ~t.isRecurring THEN FALSE
        ELSE IF fRecurrence = "non-recurring" /\ t.isRecurring THEN FALSE
        ELSE TRUE)

\* the callback of currentMonthTransactions.filter in filteredTransactions
Filter(list, fType, fCategory, fRecurrence) ==
    SelectSeq(list, LAMBDA t :
        IF fType # "all" /\ t.type # fType THEN FALSE
        ELSE IF fCategory # "all" /\ t.categoryId # fCategory THEN FALSE
        ELSE IF fRecurrence = "recurring" /\ ~t.isRecurring THEN FALSE
        ELSE IF fRecurrence = "non-recurring" /\ t.isRecurring THEN FALSE
        ELSE TRUE)

filteredTransactions == Filter(currentMonthTransactions, filterType, filterCategory, filterRecurrence)

\* list.reduce((sum, t) => sum + t.amount, 0)
RECURSIVE SumAmounts(_)
SumAmounts(list) == IF list = << >> THEN 0 ELSE list[1].amount + SumAmounts(Tail(list))

\* mutant: the monthly income baseline is left out
TotalIncomeOf_NoBaseline(list, monthlyIncome) ==
    SumAmounts(SelectSeq(list, LAMBDA t : t.type = "income"))

TotalIncomeOf(list, monthlyIncome) ==
    LET transactionIncome == SumAmounts(SelectSeq(list, LAMBDA t : t.type = "income"))
    IN  monthlyIncome + transactionIncome

\* mutant: an expense whose category is not in the store is left out
TotalExpensesOf_Categorised(list) ==
    SumAmounts(SelectSeq(list, LAMBDA t :
        /\ t.type = "expense"
        /\ \E i \in 1..Len(state.categories) : state.categories[i].id = t.categoryId))

TotalExpensesOf(list) == SumAmounts(SelectSeq(list, LAMBDA t : t.type = "expense"))

totalIncome == TotalIncomeOf(currentMonthTransactions, state.monthlyIncome)

totalExpenses == TotalExpensesOf(currentMonthTransactions)

remainingBudget == totalIncome - totalExpenses

\* (a / b) * 100 as an exact quotient
Percent(a, b) == [n |-> a * 100, d |-> b]
Zero == [n |-> 0, d |-> 1]

\* percent > k, for a quotient with a positive denominator
PercentAbove(p, k) == p.n > k * p.d

\* mutant: the guard against a zero income is missing
SpendPercentageOf_NoGuard(income, expenses) == Percent(expenses, income)

\* totalIncome > 0 ? (totalExpenses / totalIncome) * 100 : 0
SpendPercentageOf(income, expenses) ==
    IF income > 0 THEN Percent(expenses, income) ELSE Zero

spendPercentage == SpendPercentageOf(totalIncome, totalExpenses)

\* the row of one category in Category Budgets
SpentOf(list, cat) ==
    SumAmounts(SelectSeq(list, LAMBDA t : t.categoryId = cat.id /\ t.type = "expense"))

\* cat.budgetLimit || 0
LimitOf(cat) == IF "budgetLimit" \in DOMAIN cat THEN cat.budgetLimit ELSE 0

PercentOfLimit(list, cat) ==
    LET spent == SpentOf(list, cat)
        limit == LimitOf(cat)
        expenses == TotalExpensesOf(list)
    IN  IF limit > 0 THEN Percent(spent, limit)
        ELSE IF expenses > 0 THEN Percent(spent, expenses) ELSE Zero

\* mutant: the bands are applied to categories without a limit too
CategoryStatus_AlwaysBanded(list, cat) ==
    LET percent == PercentOfLimit(list, cat)
    IN  IF PercentAbove(percent, 100) THEN "over-limit"
        ELSE IF PercentAbove(percent, 85) THEN "near-limit"
        ELSE "normal"

\* progressColor: '#ef4444' is over-limit, '#f59e0b' is near-limit, cat.color
\* is normal
CategoryStatus(list, cat) ==
    LET percent == PercentOfLimit(list, cat)
        hasLimit == LimitOf(cat) > 0
    IN  IF hasLimit
        THEN IF PercentAbove(percent, 100) THEN "over-limit"
             ELSE IF PercentAbove(percent, 85) THEN "near-limit"
             ELSE "normal"
        ELSE "normal"

----------------------------------------------------------------------------
(* Input domains *)

\* outcomes of generateId: Math.random() is not checked against the ids in use
Ids == {"id1", "id2"}

\* what the user can type into the amount and description fields
AmountStrings == {"", "50", "75"}
Descriptions == {"", "rent"}

NaN == "NaN"

\* parseFloat of the amount field
parseFloat(s) == CASE s = "50" -> 50 [] s = "75" -> 75 [] OTHER -> NaN

\* Number.prototype.toString of a stored amount
numToString(n) == CASE n = 50 -> "50" [] n = 75 -> "75" [] OTHER -> "NaN"

\* TEMPLATES[*].defaultCategories (names), cut to the first MaxTemplateCats
MaxTemplateCats == 1
MaxVoice == 2           \* recognitions started
MaxCategories == 2      \* categories in the store when a voice answer adds one

TemplateIds == {"student", "retiree"}

defaultCategories(templateId) ==
    LET names == CASE templateId = "student" ->
                        << "Rent/Dorm", "Food & Dining", "Transportation", "Entertainment", "Books & Supplies" >>
                   [] templateId = "young-pro" ->
                        << "Rent", "Groceries", "Utilities", "Dining Out", "Student Loans", "Travel" >>
                   [] templateId = "family" ->
                        << "Mortgage/Rent", "Groceries", "Utilities", "Childcare", "Healthcare", "Insurance" >>
                   [] templateId = "retiree" ->
                        << "Housing", "Healthcare", "Groceries", "Travel/Leisure", "Gifts" >>
    IN  SubSeq(names, 1, Min(Len(names), MaxTemplateCats))

\* the instants at which the application may be started
At(y, m, d, h, mi, s, ms) == [day |-> MakeDay(y, m, d), ms |-> ((h * 60 + mi) * 60 + s) * 1000 + ms]

StartInstants == { At(2024, 0, 20, 9, 30, 7, 250) }

----------------------------------------------------------------------------
(* Initial state *)

defaultState ==
    [hasOnboarded |-> FALSE, monthlyIncome |-> 0, currency |-> "$", theme |-> "light",
     categories |-> << >>, transactions |-> << >>]

\* JSON.stringify of a master: a property that is undefined is left out
JSONMaster(t) ==
    [f \in { g \in DOMAIN t : g # "recurrence" \/ t.recurrence # Undefined } |-> t[f]]

\* JSON.stringify(state): the item written to localStorage
JSONStringify(st) ==
    [st EXCEPT !.transactions = [i \in 1..Len(st.transactions) |-> JSONMaster(st.transactions[i])]]

\* the form and the filters as useState initialises them
InitForm ==
    /\ isAddModalOpen = FALSE
    /\ editingId = Null
    /\ amount = ""
    /\ description = ""
    /\ selectedCategory = ""
    /\ txType = "expense"
    /\ isRecurring = FALSE
    /\ recurrenceFreq = "monthly"
    /\ filterType = "all"
    /\ filterCategory = "all"
    /\ filterRecurrence = "all"

\* first start: nothing saved
Init ==
    /\ state = defaultState
    /\ now \in StartInstants
    /\ currentDate = now
    /\ InitForm
    /\ recognition = NoRecognition
    /\ voiceParses = << >>
    /\ voiceStarted = 0
    /\ voiceDraft = NoDraft
    /\ aiAdvice = Null
    /\ isLoadingAdvice = FALSE
    /\ timer = FALSE
    /\ inflight = {}
    /\ issued = 0
    /\ localStorage = JSONStringify(state)
    /\ lastOp = [op |-> "init"]

----------------------------------------------------------------------------
(* Effects that run after a handler has changed state *)

\* mutant: the effect writes the state of the render before the change
Persist_Stale == localStorage' = JSONStringify(state)

\* useEffect(..., [state]): every setState writes the new state
Persist == localStorage' = JSONStringify(state')

\* the advice effect, run because one of its dependencies changed: the old
\* timer is cleared; if onboarded, the loading flag is set and a new timer armed
AdviceEffect(hasOnboarded) ==
    /\ isLoadingAdvice' = (IF hasOnboarded THEN TRUE ELSE isLoadingAdvice)
    /\ timer' = hasOnboarded
    /\ UNCHANGED << aiAdvice, inflight, issued >>

\* the debounce timer fires: getFinancialAdvice is called
TimerFire ==
    /\ timer
    /\ issued < MaxRequests
    /\ timer' = FALSE
    /\ issued' = issued + 1
    /\ inflight' = inflight \cup {issued + 1}
    /\ UNCHANGED << voiceVars, filterVars, state, currentDate, now, isAddModalOpen, formVars, aiAdvice,
                    isLoadingAdvice, localStorage, lastOp >>

\* the text generateContent answers to request r
AdviceOf(r) == "advice " \o ToString(r)

\* what getFinancialAdvice returns from its catch block
Placeholder == "I'm having trouble connecting to the bamboo forest right now. Check back later!"

\* the promise of request r resolves with the answer of the API:
\* .then(advice => ...)
AdviceResolve(r) ==
    /\ r \in inflight
    /\ inflight' = inflight \ {r}
    /\ aiAdvice' = AdviceOf(r)
    /\ isLoadingAdvice' = FALSE
    /\ UNCHANGED << voiceVars, filterVars, state, currentDate, now, isAddModalOpen, formVars, timer, issued,
                    localStorage, lastOp >>

\* mutant: getFinancialAdvice rejects and the .catch of the effect runs
AdviceFails_Rejects(r) ==
    /\ r \in inflight
    /\ inflight' = inflight \ {r}
    /\ isLoadingAdvice' = FALSE
    /\ UNCHANGED << voiceVars, filterVars, state, currentDate, now, isAddModalOpen, formVars, timer, issued,
                    localStorage, lastOp, aiAdvice >>

\* the API call of request r throws: the catch block of getFinancialAdvice
\* returns the placeholder and the promise resolves with it
AdviceFails(r) ==
    /\ r \in inflight
    /\ inflight' = inflight \ {r}
    /\ aiAdvice' = Placeholder
    /\ isLoadingAdvice' = FALSE
    /\ UNCHANGED << voiceVars, filterVars, state, currentDate, now, isAddModalOpen, formVars, timer, issued,
                    localStorage, lastOp >>

----------------------------------------------------------------------------
(* Handlers *)

generateId(id) == id \in Ids

handleTemplateSelect(templateId, ids) ==
    /\ ~state.hasOnboarded
    /\ LET defs == defaultCategories(templateId)
           newCategories == [k \in 1..Len(defs) |->
                                [id |-> ids[k], name |-> defs[k]]]
       IN  state' = [state EXCEPT !.categories = newCategories]
    /\ Persist
    /\ AdviceEffect(state'.hasOnboarded)
    /\ lastOp' = [op |-> "template"]
    /\ UNCHANGED << voiceVars, filterVars, currentDate, now, isAddModalOpen, formVars >>

completeOnboarding(income, currency) ==
    /\ ~state.hasOnboarded
    /\ Len(state.categories) > 0
    /\ state' = [state EXCEPT !.monthlyIncome = income, !.currency = currency,
                              !.hasOnboarded = TRUE]
    /\ Persist
    /\ AdviceEffect(state'.hasOnboarded)
    /\ lastOp' = [op |-> "onboard"]
    /\ UNCHANGED << voiceVars, filterVars, currentDate, now, isAddModalOpen, formVars >>

changeMonth(offset) ==
    /\ state.hasOnboarded
    /\ ~isAddModalOpen
    /\ LET newDate == setMonth(currentDate, getMonth(currentDate) + offset)
       IN  /\ MonthIndex(getFullYear(newDate), getMonth(newDate))
                  - MonthIndex(getFullYear(now), getMonth(now)) \in -MaxNav..MaxNav
           /\ currentDate' = newDate
    /\ AdviceEffect(state.hasOnboarded)
    /\ UNCHANGED << voiceVars, filterVars, state, now, isAddModalOpen, formVars, localStorage, lastOp >>

\* the values resetForm sets
ResetForm ==
    /\ editingId' = Null
    /\ amount' = ""
    /\ description' = ""
    /\ selectedCategory' = (IF Len(state.categories) > 0 THEN state.categories[1].id ELSE "")
    /\ txType' = "expense"
    /\ isRecurring' = FALSE
    /\ recurrenceFreq' = "monthly"
    /\ voiceDraft' = NoDraft

\* the Add Transaction button
openAddModal ==
    /\ state.hasOnboarded
    /\ ~isAddModalOpen
    /\ ResetForm
    /\ isAddModalOpen' = TRUE
    /\ UNCHANGED << recognition, voiceParses, voiceStarted, filterVars, state, currentDate, now, adviceVars, localStorage, lastOp >>

\* Modal onClose: only the flag changes, the form keeps its values
closeModal ==
    /\ isAddModalOpen
    /\ isAddModalOpen' = FALSE
    /\ UNCHANGED << voiceVars, filterVars, state, currentDate, now, formVars, adviceVars, localStorage, lastOp >>

setAmount(v) ==
    /\ isAddModalOpen
    /\ amount' = v
    /\ UNCHANGED << voiceVars, filterVars, state, currentDate, now, isAddModalOpen, editingId, description,
                    selectedCategory, txType, isRecurring, recurrenceFreq, adviceVars,
                    localStorage, lastOp >>

setDescription(v) ==
    /\ isAddModalOpen
    /\ description' = v
    /\ UNCHANGED << voiceVars, filterVars, state, currentDate, now, isAddModalOpen, editingId, amount,
                    selectedCategory, txType, isRecurring, recurrenceFreq, adviceVars,
                    localStorage, lastOp >>

setTxType(v) ==
    /\ isAddModalOpen
    /\ txType' = v
    /\ UNCHANGED << voiceVars, filterVars, state, currentDate, now, isAddModalOpen, editingId, amount, description,
                    selectedCategory, isRecurring, recurrenceFreq, adviceVars, localStorage, lastOp >>

\* the category buttons, rendered for an expense only
setSelectedCategory(k) ==
    /\ isAddModalOpen
    /\ txType = "expense"
    /\ k \in 1..Len(state.categories)
    /\ selectedCategory' = state.categories[k].id
    /\ UNCHANGED << voiceVars, filterVars, state, currentDate, now, isAddModalOpen, editingId, amount, description,
                    txType, isRecurring, recurrenceFreq, adviceVars, localStorage, lastOp >>

setIsRecurring(v) ==
    /\ isAddModalOpen
    /\ isRecurring' = v
    /\ UNCHANGED << voiceVars, filterVars, state, currentDate, now, isAddModalOpen, editingId, amount, description,
                    selectedCategory, txType, recurrenceFreq, adviceVars, localStorage, lastOp >>

Frequencies == {"daily", "weekly", "monthly", "yearly"}

\* the frequency buttons, rendered while the recurring switch is on
setRecurrenceFreq(freq) ==
    /\ isAddModalOpen
    /\ isRecurring
    /\ recurrenceFreq' = freq
    /\ UNCHANGED << voiceVars, filterVars, state, currentDate, now, isAddModalOpen, editingId, amount, description,
                    selectedCategory, txType, isRecurring, adviceVars, localStorage, lastOp >>

\* `if (editingId)`: null and the empty string are falsy
Truthy(s) == s # Null /\ s # ""

\* mutant: an update also gives the master the date a new master would get
UpdatedTx_NewDate(t) ==
    [t EXCEPT !.amount = parseFloat(amount),
              !.description = description,
              !.categoryId = IF txType = "income" THEN "income" ELSE selectedCategory,
              !.type = txType,
              !.date = toISOString(IF getMonth(currentDate) = getMonth(now)
                                      /\ getFullYear(currentDate) = getFullYear(now)
                                   THEN now ELSE setDate(currentDate, 15)),
              !.isRecurring = isRecurring,
              !.recurrence = IF isRecurring THEN recurrenceFreq ELSE "none"]

\* the record handleSaveTransaction writes over a master it updates
UpdatedTx(t) ==
    [t EXCEPT !.amount = parseFloat(amount),
              !.description = description,
              !.categoryId = IF txType = "income" THEN "income" ELSE selectedCategory,
              !.type = txType,
              !.isRecurring = isRecurring,
              !.recurrence = IF isRecurring THEN recurrenceFreq ELSE "none"]

\* mutant: the new master is dated today whatever month is viewed
NewTxDate_AlwaysToday == now

\* the date handleSaveTransaction gives a new master
NewTxDate ==
    LET txDate == currentDate
        today == now
    IN  IF getMonth(txDate) = getMonth(today) /\ getFullYear(txDate) = getFullYear(today)
        THEN today
        ELSE setDate(txDate, 15)

\* mutant: the category picked in the form is stored for an income too
NewTx_KeepsCategory(id) ==
    [id |-> id,
     amount |-> parseFloat(amount),
     description |-> description,
     categoryId |-> selectedCategory,
     type |-> txType,
     date |-> toISOString(NewTxDate),
     isRecurring |-> isRecurring,
     recurrence |-> IF isRecurring THEN recurrenceFreq ELSE "none"]

NewTx(id) ==
    [id |-> id,
     amount |-> parseFloat(amount),
     description |-> description,
     categoryId |-> IF txType = "income" THEN "income" ELSE selectedCategory,
     type |-> txType,
     date |-> toISOString(NewTxDate),
     isRecurring |-> isRecurring,
     recurrence |-> IF isRecurring THEN recurrenceFreq ELSE "none"]

\* submit with an empty amount or description: the handler returns at once
handleSaveTransactionInvalid ==
    /\ isAddModalOpen
    /\ amount = "" \/ description = ""
    /\ UNCHANGED << voiceVars, filterVars, state, currentDate, now, isAddModalOpen, formVars, adviceVars, localStorage,
                    lastOp >>

\* submit while editingId is set: every master with that id is rewritten
handleSaveTransactionUpdate ==
    /\ isAddModalOpen
    /\ amount # "" /\ description # ""
    /\ Truthy(editingId)
    /\ state' = [state EXCEPT !.transactions =
                    [i \in 1..Len(state.transactions) |->
                        IF state.transactions[i].id = editingId
                        THEN UpdatedTx(state.transactions[i])
                        ELSE state.transactions[i]]]
    /\ isAddModalOpen' = FALSE
    /\ ResetForm
    /\ Persist
    /\ AdviceEffect(state'.hasOnboarded)
    /\ lastOp' = [op |-> "update", id |-> editingId]
    /\ UNCHANGED << recognition, voiceParses, voiceStarted, filterVars, currentDate, now >>

\* submit while editingId is not set: a new master is put first
handleSaveTransactionCreate(id) ==
    /\ isAddModalOpen
    /\ amount # "" /\ description # ""
    /\ ~Truthy(editingId)
    /\ Len(state.transactions) < MaxTx
    /\ generateId(id)
    /\ state' = [state EXCEPT !.transactions = << NewTx(id) >> \o state.transactions]
    /\ isAddModalOpen' = FALSE
    /\ ResetForm
    /\ Persist
    /\ AdviceEffect(state'.hasOnboarded)
    /\ lastOp' = [op |-> "create", id |-> id]
    /\ UNCHANGED << recognition, voiceParses, voiceStarted, filterVars, currentDate, now >>

\* state.transactions.find(tr => tr.id === t.id) || t
FindMaster(t) ==
    IF \E i \in 1..Len(state.transactions) : state.transactions[i].id = t.id
    THEN state.transactions[CHOOSE i \in 1..Len(state.transactions) :
                                /\ state.transactions[i].id = t.id
                                /\ \A j \in 1..(i - 1) : state.transactions[j].id # t.id]
    ELSE t

\* the pencil button of the k-th row of the (filtered) list
handleEditClick(k) ==
    /\ state.hasOnboarded
    /\ ~isAddModalOpen
    /\ k \in 1..Len(filteredTransactions)
    /\ LET master == FindMaster(filteredTransactions[k])
       IN  /\ editingId' = master.id
           /\ amount' = numToString(master.amount)
           /\ description' = master.description
           /\ selectedCategory' = master.categoryId
           /\ txType' = master.type
           /\ isRecurring' = master.isRecurring
           /\ recurrenceFreq' = (IF master.recurrence = Undefined THEN "monthly" ELSE master.recurrence)
    /\ voiceDraft' = NoDraft
    /\ isAddModalOpen' = TRUE
    /\ UNCHANGED << recognition, voiceParses, voiceStarted, filterVars, state, currentDate, now, adviceVars, localStorage, lastOp >>

\* mutant: only the first master with the id is removed
RemoveById_FirstOnly(txs, id) ==
    LET hit == { i \in 1..Len(txs) : txs[i].id = id }
    IN  IF hit = {} THEN txs
        ELSE LET f == CHOOSE i \in hit : \A j \in hit : i <= j
             IN  SubSeq(txs, 1, f - 1) \o SubSeq(txs, f + 1, Len(txs))

\* prev.transactions.filter(t => t.id !== id)
RemoveById(txs, id) == SelectSeq(txs, LAMBDA t : t.id # id)

\* the bin button of the k-th row of the (filtered) list; `confirmed` is the
\* answer to confirm()
handleDeleteTransaction(k, confirmed) ==
    /\ state.hasOnboarded
    /\ ~isAddModalOpen
    /\ k \in 1..Len(filteredTransactions)
    /\ LET id == filteredTransactions[k].id
       IN  IF confirmed
           THEN /\ state' = [state EXCEPT !.transactions = RemoveById(state.transactions, id)]
                /\ Persist
                /\ AdviceEffect(state'.hasOnboarded)
                /\ lastOp' = [op |-> "delete", id |-> id]
           ELSE UNCHANGED << state, adviceVars, localStorage, lastOp >>
    /\ UNCHANGED << voiceVars, filterVars, currentDate, now, isAddModalOpen, formVars >>

\* "Delete this transaction" inside the edit form (src/unnamed/part_001): the
\* handler is called with editingId; the form stays open as it is
handleDeleteTransactionInModal(confirmed) ==
    /\ isAddModalOpen
    /\ Truthy(editingId)
    /\ IF confirmed
       THEN /\ state' = [state EXCEPT !.transactions = RemoveById(state.transactions, editingId)]
            /\ Persist
            /\ AdviceEffect(state'.hasOnboarded)
            /\ lastOp' = [op |-> "delete", id |-> editingId]
       ELSE UNCHANGED << state, adviceVars, localStorage, lastOp >>
    /\ UNCHANGED << voiceVars, filterVars, currentDate, now, isAddModalOpen, formVars >>

\* submit in src/unnamed/part_001: only an empty amount is rejected
handleSaveTransactionV4Invalid ==
    /\ isAddModalOpen
    /\ amount = ""
    /\ UNCHANGED << voiceVars, filterVars, state, currentDate, now, isAddModalOpen, formVars, adviceVars,
                    localStorage, lastOp >>

\* mutant: an update that finds no master with the id appends the form's values
UpdatedTransactions_Upsert(txs) ==
    IF \E i \in 1..Len(txs) : txs[i].id = editingId
    THEN [i \in 1..Len(txs) |-> IF txs[i].id = editingId THEN UpdatedTx(txs[i]) ELSE txs[i]]
    ELSE txs \o << NewTx(editingId) >>

\* prev.transactions.map(t => t.id === editingId ? { ...t, ... } : t)
UpdatedTransactions(txs) ==
    [i \in 1..Len(txs) |-> IF txs[i].id = editingId THEN UpdatedTx(txs[i]) ELSE txs[i]]

handleSaveTransactionV4Update ==
    /\ isAddModalOpen
    /\ amount # ""
    /\ Truthy(editingId)
    /\ state' = [state EXCEPT !.transactions = UpdatedTransactions(state.transactions)]
    /\ isAddModalOpen' = FALSE
    /\ ResetForm
    /\ Persist
    /\ AdviceEffect(state'.hasOnboarded)
    /\ lastOp' = [op |-> "update", id |-> editingId]
    /\ UNCHANGED << recognition, voiceParses, voiceStarted, filterVars, currentDate, now >>

handleSaveTransactionV4Create(id) ==
    /\ isAddModalOpen
    /\ amount # ""
    /\ ~Truthy(editingId)
    /\ Len(state.transactions) < MaxTx
    /\ generateId(id)
    /\ state' = [state EXCEPT !.transactions = << NewTx(id) >> \o state.transactions]
    /\ isAddModalOpen' = FALSE
    /\ ResetForm
    /\ Persist
    /\ AdviceEffect(state'.hasOnboarded)
    /\ lastOp' = [op |-> "create", id |-> id]
    /\ UNCHANGED << recognition, voiceParses, voiceStarted, filterVars, currentDate, now >>

\* prev => ({ ...prev, categories: prev.categories.filter(c => c.id !== cat.id) })
DeleteCategoryFrom(st, id) == [st EXCEPT !.categories = RemoveById(st.categories, id)]

\* the bin button of the k-th category in Manage Categories
deleteCategory(k) ==
    /\ state.hasOnboarded
    /\ ~isAddModalOpen
    /\ k \in 1..Len(state.categories)
    /\ state' = DeleteCategoryFrom(state, state.categories[k].id)
    /\ Persist
    /\ AdviceEffect(state'.hasOnboarded)
    /\ lastOp' = [op |-> "deleteCategory", id |-> state.categories[k].id]
    /\ UNCHANGED << voiceVars, filterVars, currentDate, now, isAddModalOpen, formVars >>

\* the three selects above the transaction list
setFilterType(v) ==
    /\ state.hasOnboarded
    /\ ~isAddModalOpen
    /\ filterType' = v
    /\ UNCHANGED << voiceVars, state, currentDate, now, isAddModalOpen, formVars, adviceVars, localStorage,
                    filterCategory, filterRecurrence, lastOp >>

setFilterCategory(v) ==
    /\ state.hasOnboarded
    /\ ~isAddModalOpen
    /\ filterCategory' = v
    /\ UNCHANGED << voiceVars, state, currentDate, now, isAddModalOpen, formVars, adviceVars, localStorage,
                    filterType, filterRecurrence, lastOp >>

setFilterRecurrence(v) ==
    /\ state.hasOnboarded
    /\ ~isAddModalOpen
    /\ filterRecurrence' = v
    /\ UNCHANGED << voiceVars, state, currentDate, now, isAddModalOpen, formVars, adviceVars, localStorage,
                    filterType, filterCategory, lastOp >>

----------------------------------------------------------------------------
(* Voice input (src/unnamed/part_001).  The handlers of a SpeechRecognition *)
(* are closures of the render in which the microphone was pressed: they    *)
(* read the state.categories of that render.                               *)

\* String.prototype.toLowerCase on the names that occur
toLowerCase(s) ==
    CASE s = "Housing" -> "housing"
      [] s = "Gym" -> "gym"
      [] OTHER -> s

\* what the model may answer: categoryName ("" when the field is missing) and type
VoiceAnswers ==
    { [categoryName |-> n, type |-> t] : n \in {"", "housing", "Gym"}, t \in {"expense", "income"} }

\* categories.find(c => c.name.toLowerCase() === (result.categoryName || '').toLowerCase()):
\* the position of the first match, 0 when there is none
FindCategory(categories, name) ==
    IF \E i \in 1..Len(categories) : toLowerCase(categories[i].name) = toLowerCase(name)
    THEN CHOOSE i \in 1..Len(categories) :
            /\ toLowerCase(categories[i].name) = toLowerCase(name)
            /\ \A j \in 1..(i - 1) : toLowerCase(categories[j].name) # toLowerCase(name)
    ELSE 0

\* the object parseTransactionFromText returns for an answer
ParsedData(answer, categories) ==
    LET k == FindCategory(categories, answer.categoryName)
    IN  [amount |-> 50,
         description |-> "rent",
         categoryId |-> IF k > 0 THEN categories[k].id ELSE Null,
         newCategoryName |-> IF k > 0 \/ answer.categoryName = "" THEN Null ELSE answer.categoryName,
         type |-> IF answer.type = "income" THEN "income" ELSE "expense",
         isRecurring |-> FALSE,
         recurrence |-> "monthly"]

\* the microphone button
handleVoiceInput ==
    /\ state.hasOnboarded
    /\ ~isAddModalOpen
    /\ recognition = NoRecognition   \* if (isListening) return
    /\ voiceStarted < MaxVoice
    /\ voiceStarted' = voiceStarted + 1
    /\ recognition' = [seq |-> voiceStarted + 1, categories |-> state.categories]
    /\ UNCHANGED << filterVars, state, currentDate, now, isAddModalOpen, formVars, adviceVars,
                    localStorage, lastOp, voiceParses, voiceDraft >>

\* recognition.onresult up to its await: the parse is called with the
\* categories of the closure
onresult ==
    /\ recognition # NoRecognition
    /\ voiceParses' = Append(voiceParses, recognition)
    /\ recognition' = NoRecognition
    /\ UNCHANGED << filterVars, state, currentDate, now, isAddModalOpen, formVars, adviceVars,
                    localStorage, lastOp, voiceStarted, voiceDraft >>

\* recognition.onerror: nothing was understood
onerror ==
    /\ recognition # NoRecognition
    /\ recognition' = NoRecognition
    /\ UNCHANGED << filterVars, state, currentDate, now, isAddModalOpen, formVars, adviceVars,
                    localStorage, lastOp, voiceParses, voiceStarted, voiceDraft >>

RemoveAt(seq, i) == SubSeq(seq, 1, i - 1) \o SubSeq(seq, i + 1, Len(seq))

\* recognition.onresult after its await, parsedData null: only the alert
onresultNull(i) ==
    /\ i \in 1..Len(voiceParses)
    /\ voiceParses' = RemoveAt(voiceParses, i)
    /\ UNCHANGED << filterVars, state, currentDate, now, isAddModalOpen, formVars, adviceVars,
                    localStorage, lastOp, recognition, voiceStarted, voiceDraft >>

\* recognition.onresult after its await, with the parsed data: the form is
\* filled and opened; editingId is left as it is
onresultParsed(i, answer, id) ==
    /\ i \in 1..Len(voiceParses)
    /\ LET seen == voiceParses[i].categories
           parsedData == ParsedData(answer, seen)
       IN  /\ amount' = numToString(parsedData.amount)
           /\ description' = parsedData.description
           /\ txType' = parsedData.type
           /\ isRecurring' = parsedData.isRecurring
           /\ recurrenceFreq' = parsedData.recurrence
           /\ IF parsedData.categoryId # Null
              THEN /\ selectedCategory' = parsedData.categoryId
                   /\ UNCHANGED << state, adviceVars, localStorage, lastOp >>
              ELSE IF parsedData.newCategoryName # Null /\ parsedData.type = "expense"
              THEN /\ Len(state.categories) < MaxCategories
                   /\ generateId(id)
                   /\ state' = [state EXCEPT !.categories =
                                    Append(@, [id |-> id, name |-> parsedData.newCategoryName,
                                               budgetLimit |-> 0])]
                   /\ Persist
                   /\ AdviceEffect(state'.hasOnboarded)
                   /\ lastOp' = [op |-> "voiceCategory", id |-> id]
                   /\ selectedCategory' = id
              ELSE /\ selectedCategory' = (IF Len(seen) > 0 THEN seen[1].id ELSE "")
                   /\ UNCHANGED << state, adviceVars, localStorage, lastOp >>
           /\ voiceDraft' = [seq |-> voiceParses[i].seq, categoryName |-> answer.categoryName,
                             type |-> parsedData.type]
    /\ isAddModalOpen' = TRUE
    /\ voiceParses' = RemoveAt(voiceParses, i)
    /\ UNCHANGED << filterVars, currentDate, now, editingId, recognition, voiceStarted >>

\* the theme switch
toggleTheme ==
    /\ state.hasOnboarded
    /\ ~isAddModalOpen
    /\ state' = [state EXCEPT !.theme = IF @ = "light" THEN "dark" ELSE "light"]
    /\ Persist
    /\ lastOp' = [op |-> "theme"]
    /\ UNCHANGED << voiceVars, filterVars, currentDate, now, isAddModalOpen, formVars, adviceVars >>

\* a currency button of the settings
setCurrency(symbol) ==
    /\ state.hasOnboarded
    /\ ~isAddModalOpen
    /\ state' = [state EXCEPT !.currency = symbol]
    /\ Persist
    /\ AdviceEffect(state'.hasOnboarded)
    /\ lastOp' = [op |-> "currency"]
    /\ UNCHANGED << voiceVars, filterVars, currentDate, now, isAddModalOpen, formVars >>

\* parseFloat(value) || 0 of a number field
NumberOrZero(s) == CASE s = "100" -> 100 [] OTHER -> 0

\* the Monthly Income field of the settings
setMonthlyIncome(value) ==
    /\ state.hasOnboarded
    /\ ~isAddModalOpen
    /\ state' = [state EXCEPT !.monthlyIncome = NumberOrZero(value)]
    /\ Persist
    /\ AdviceEffect(state'.hasOnboarded)
    /\ lastOp' = [op |-> "income"]
    /\ UNCHANGED << voiceVars, filterVars, currentDate, now, isAddModalOpen, formVars >>

\* handleSaveCategory with editingCategoryId unset: a category is added
handleSaveCategoryCreate(newCatName, newCatLimit, id) ==
    /\ state.hasOnboarded
    /\ ~isAddModalOpen
    /\ newCatName # ""
    /\ Len(state.categories) < MaxCategories
    /\ generateId(id)
    /\ state' = [state EXCEPT !.categories =
                     Append(@, [id |-> id, name |-> newCatName,
                                budgetLimit |-> NumberOrZero(newCatLimit)])]
    /\ Persist
    /\ AdviceEffect(state'.hasOnboarded)
    /\ lastOp' = [op |-> "addCategory", id |-> id]
    /\ UNCHANGED << voiceVars, filterVars, currentDate, now, isAddModalOpen, formVars >>

\* the category c of categories.map(...) in handleSaveCategory
EditedCategory(c, editingCategoryId, newCatName, newCatLimit) ==
    IF c.id = editingCategoryId
    THEN [id |-> c.id, name |-> newCatName, budgetLimit |-> NumberOrZero(newCatLimit)]
    ELSE c

\* handleSaveCategory with editingCategoryId set to the k-th category
handleSaveCategoryUpdate(k, newCatName, newCatLimit) ==
    /\ state.hasOnboarded
    /\ ~isAddModalOpen
    /\ newCatName # ""
    /\ k \in 1..Len(state.categories)
    /\ state' = [state EXCEPT !.categories =
                     [i \in 1..Len(@) |->
                         EditedCategory(@[i], state.categories[k].id, newCatName, newCatLimit)]]
    /\ Persist
    /\ AdviceEffect(state'.hasOnboarded)
    /\ lastOp' = [op |-> "editCategory", id |-> state.categories[k].id]
    /\ UNCHANGED << voiceVars, filterVars, currentDate, now, isAddModalOpen, formVars >>

\* a day passes on the wall clock
Tick ==
    /\ \E s \in StartInstants : now.day < s.day + MaxTicks
    /\ now' = [now EXCEPT !.day = @ + 1]
    /\ UNCHANGED << voiceVars, filterVars, state, currentDate, isAddModalOpen, formVars, adviceVars, localStorage, lastOp >>

----------------------------------------------------------------------------
(* The store and the form, started with nothing saved.  The user fills the *)
(* form (resetForm leaves amount and description empty and isRecurring     *)
(* unticked) and moves forward through the months; SpecView moves both     *)
(* ways.                                                                   *)

Next ==
    \/ \E ids \in [1..MaxTemplateCats -> Ids] : handleTemplateSelect("student", ids)
    \/ completeOnboarding(0, "$")
    \/ changeMonth(1)
    \/ openAddModal
    \/ \E v \in AmountStrings \ {""} : setAmount(v)
    \/ setDescription("rent")
    \/ setIsRecurring(TRUE)
    \/ handleSaveTransactionInvalid
    \/ handleSaveTransactionUpdate
    \/ \E id \in Ids : handleSaveTransactionCreate(id)
    \/ \E k \in 1..MaxTx : handleEditClick(k)
    \/ \E k \in 1..MaxTx : \E c \in BOOLEAN : handleDeleteTransaction(k, c)

Spec == Init /\ [][Next]_vars

----------------------------------------------------------------------------
(* The month view over a store loaded from localStorage *)

\* mutant: { ...JSON.parse(saved), ...defaultState }
MergeSaved_DefaultsWin(saved) ==
    [f \in DOMAIN defaultState \cup DOMAIN saved |->
        IF f \in DOMAIN defaultState THEN defaultState[f] ELSE saved[f]]

\* { ...defaultState, ...JSON.parse(saved) }: the properties of both
\* objects, those of the saved object winning
MergeSaved(saved) ==
    [f \in DOMAIN defaultState \cup DOMAIN saved |->
        IF f \in DOMAIN saved THEN saved[f] ELSE defaultState[f]]

\* saved ? { ...defaultState, ...JSON.parse(saved) } : defaultState, for the
\* item getItem returns (<< >> when there is none)
InitialState(item) == IF item = << >> THEN defaultState ELSE MergeSaved(item[1])

SavedDates ==
    { toISOString(At(2024, 0, 31, 9, 30, 7, 250)),    \* saved "today", on a 31st
      toISOString(At(2024, 1, 15, 9, 30, 0, 0)) }     \* saved while February was viewed

SavedRecurrences ==
    { << FALSE, "none" >>, << TRUE, "monthly" >>, << TRUE, Undefined >>, << TRUE, "daily" >>,
      << TRUE, "weekly" >>, << TRUE, "yearly" >> }

\* masters written by earlier sessions
SavedMasters ==
    { [id |-> id, amount |-> 50, description |-> "rent", categoryId |-> "cat1",
       type |-> "expense", date |-> d, isRecurring |-> r[1], recurrence |-> r[2]] :
         id \in Ids, d \in SavedDates, r \in SavedRecurrences }

SavedLists == UNION { [1..n -> SavedMasters] : n \in 0..MaxTx }

InitLoaded ==
    /\ \E txs \in SavedLists :
          state = MergeSaved([hasOnboarded |-> TRUE,
                              categories |-> << [id |-> "cat1", name |-> "Housing"] >>,
                              transactions |-> txs])
    /\ now = At(2024, 0, 31, 9, 30, 7, 250)
    /\ currentDate = now
    /\ InitForm
    /\ recognition = NoRecognition
    /\ voiceParses = << >>
    /\ voiceStarted = 0
    /\ voiceDraft = NoDraft
    /\ aiAdvice = Null
    /\ isLoadingAdvice = TRUE     \* the advice effect has run on mount
    /\ timer = TRUE
    /\ inflight = {}
    /\ issued = 0
    /\ localStorage = JSONStringify(state)
    /\ lastOp = [op |-> "init"]

\* The dashboard over a saved store: a category saved in Manage Categories
\* with or without a limit (an empty limit field is saved as 0), a category
\* of a template (no budgetLimit field), and masters of both types saved
\* "today".
DashLimits == {0, 100}
DashIncomes == {0, 100}
DashAmounts == {50, 120}

DashMasters(id) ==
    { [id |-> id, amount |-> a, description |-> "rent", categoryId |-> c[2],
       type |-> c[1], date |-> toISOString(d), isRecurring |-> r[1], recurrence |-> r[2]] :
         a \in DashAmounts,
         c \in { << "expense", "cat1" >>, << "expense", "cat2" >>, << "income", "income" >> },
         d \in StartInstants,
         r \in { << FALSE, "none" >>, << TRUE, "monthly" >> } }

DashLists ==
    UNION { { txs \in [1..n -> UNION { DashMasters(id) : id \in Ids }] :
                \A i \in 1..n : txs[i].id = (IF i = 1 THEN "id1" ELSE "id2") } : n \in 0..MaxTx }

InitDash ==
    /\ \E txs \in DashLists, limit \in DashLimits, income \in DashIncomes :
          state = MergeSaved([hasOnboarded |-> TRUE,
                              monthlyIncome |-> income,
                              categories |-> << [id |-> "cat1", name |-> "Housing",
                                                 budgetLimit |-> limit],
                                                [id |-> "cat2", name |-> "Travel/Leisure"] >>,
                              transactions |-> txs])
    /\ now \in StartInstants
    /\ currentDate = now
    /\ InitForm
    /\ recognition = NoRecognition
    /\ voiceParses = << >>
    /\ voiceStarted = 0
    /\ voiceDraft = NoDraft
    /\ aiAdvice = Null
    /\ isLoadingAdvice = TRUE     \* the advice effect has run on mount
    /\ timer = TRUE
    /\ inflight = {}
    /\ issued = 0
    /\ localStorage = JSONStringify(state)
    /\ lastOp = [op |-> "init"]

NextDash ==
    \/ changeMonth(1)
    \/ \E v \in {"all", "expense", "income"} : setFilterType(v)
    \/ \E v \in {"all", "cat1"} : setFilterCategory(v)
    \/ \E v \in {"all", "recurring", "non-recurring"} : setFilterRecurrence(v)

SpecDash == InitDash /\ [][NextDash]_vars

\* The form of src/unnamed/part_001, with its delete button, and the category
\* list, from first start.
NextForm ==
    \/ handleTemplateSelect("retiree", [k \in 1..MaxTemplateCats |-> "id2"])
    \/ completeOnboarding(0, "$")
    \/ openAddModal
    \/ closeModal
    \/ setAmount("50")
    \/ setDescription("rent")
    \/ \E v \in {"expense", "income"} : setTxType(v)
    \/ \E k \in 1..MaxTemplateCats : setSelectedCategory(k)
    \/ handleSaveTransactionV4Invalid
    \/ handleSaveTransactionV4Update
    \/ \E id \in Ids : handleSaveTransactionV4Create(id)
    \/ \E k \in 1..MaxTx : handleEditClick(k)
    \/ \E k \in 1..MaxTx : handleDeleteTransaction(k, TRUE)
    \/ \E c \in BOOLEAN : handleDeleteTransactionInModal(c)
    \/ \E k \in 1..MaxTemplateCats : deleteCategory(k)

SpecForm == Init /\ [][NextForm]_vars

NextView ==
    \/ \E o \in {-1, 1} : changeMonth(o)
    \/ \E k \in 1..MaxTx : \E c \in BOOLEAN : handleDeleteTransaction(k, c)

SpecView == InitLoaded /\ [][NextView]_vars

\* A store saved by an earlier session: one category of a template and at
\* most one master, saved "today".
SavedToday ==
    { [id |-> "id1", amount |-> 50, description |-> "rent", categoryId |-> "id2",
       type |-> "expense", date |-> toISOString(d), isRecurring |-> FALSE,
       recurrence |-> "none"] : d \in StartInstants }

InitSaved ==
    /\ \E txs \in {<< >>} \cup { << m >> : m \in SavedToday } :
          state = MergeSaved([hasOnboarded |-> TRUE,
                              categories |-> << [id |-> "id2", name |-> "Housing"] >>,
                              transactions |-> txs])
    /\ now \in StartInstants
    /\ currentDate = now
    /\ InitForm
    /\ recognition = NoRecognition
    /\ voiceParses = << >>
    /\ voiceStarted = 0
    /\ voiceDraft = NoDraft
    /\ aiAdvice = Null
    /\ isLoadingAdvice = TRUE     \* the advice effect has run on mount
    /\ timer = TRUE
    /\ inflight = {}
    /\ issued = 0
    /\ localStorage = JSONStringify(state)
    /\ lastOp = [op |-> "init"]

NextVoice ==
    \/ handleVoiceInput
    \/ onresult
    \/ onerror
    \/ \E i \in 1..MaxVoice : onresultNull(i)
    \/ \E i \in 1..MaxVoice : \E answer \in VoiceAnswers : \E id \in Ids : onresultParsed(i, answer, id)
    \/ \E k \in 1..MaxCategories : deleteCategory(k)
    \/ openAddModal
    \/ closeModal
    \/ \E k \in 1..MaxTx : handleEditClick(k)
    \/ handleSaveTransactionV4Update
    \/ \E id \in Ids : handleSaveTransactionV4Create(id)

SpecVoice == InitSaved /\ [][NextVoice]_vars

\* Every kind of change of the store, over the saved store, with the form
\* of src/unnamed/part_001
NextStore ==
    \/ toggleTheme
    \/ setCurrency("€")
    \/ setMonthlyIncome("100")
    \/ handleSaveCategoryCreate("Gym", "100", "id1")
    \/ \E k \in 1..MaxCategories : handleSaveCategoryUpdate(k, "Gym", "")
    \/ \E k \in 1..MaxCategories : deleteCategory(k)
    \/ openAddModal
    \/ setAmount("50")
    \/ handleSaveTransactionV4Create("id2")
    \/ \E k \in 1..MaxTx : handleEditClick(k)
    \/ handleSaveTransactionV4Update
    \/ \E k \in 1..MaxTx : handleDeleteTransaction(k, TRUE)

SpecStore == InitSaved /\ [][NextStore]_vars

\* Start-up over an item that holds any subset of the properties of the
\* state, or over no item.
SavedComplete ==
    [hasOnboarded |-> TRUE, monthlyIncome |-> 100, currency |-> "€", theme |-> "dark",
     categories |-> << [id |-> "id2", name |-> "Housing"] >>,
     transactions |-> << CHOOSE m \in SavedToday : TRUE >>]

SavedItems ==
    { << >> } \cup
    { << [f \in fields |-> SavedComplete[f]] >> : fields \in SUBSET DOMAIN SavedComplete }

InitStartup ==
    /\ \E item \in SavedItems :
          /\ state = InitialState(item)
          /\ lastOp = [op |-> "load", item |-> item]
    /\ now \in StartInstants
    /\ currentDate = now
    /\ InitForm
    /\ recognition = NoRecognition
    /\ voiceParses = << >>
    /\ voiceStarted = 0
    /\ voiceDraft = NoDraft
    /\ aiAdvice = Null
    /\ isLoadingAdvice = state.hasOnboarded     \* the advice effect has run on mount
    /\ timer = state.hasOnboarded
    /\ inflight = {}
    /\ issued = 0
    /\ localStorage = JSONStringify(state)

NextStartup ==
    \/ \E ids \in [1..MaxTemplateCats -> Ids] : handleTemplateSelect("student", ids)
    \/ completeOnboarding(0, "$")
    \/ toggleTheme
    \/ changeMonth(1)
    \/ openAddModal
    \/ closeModal

SpecStartup == InitStartup /\ [][NextStartup]_vars

----------------------------------------------------------------------------
(* Properties of the month projector *)

\* the target months examined: from before every month the view can reach to
\* Horizon months after the real current month
TargetMonths ==
    LET c == MonthIndex(getFullYear(now), getMonth(now))
    IN  (c - MaxNav - 1)..(c + Horizon)

YearOf(idx) == idx \div 12
MonthOf(idx) == idx % 12

\* the anchor month of a master, read off its stored ISO date
AnchorIndex(t) == MonthIndex(t.date.Y, t.date.M - 1)

IsMonthly(t) == t.isRecurring /\ t.recurrence \in {"monthly", Undefined}

\* positions of a tagged projection that come from master i
EntriesOf(p, i) == { k \in 1..Len(p) : p[k].src = i }

\* C1: a monthly recurring master (recurrence 'monthly' or unset) anchored at
\* (Y,Mo,D) has exactly one entry in the projection of every target month at
\* or after (Y,Mo), on day min(D, days in the target month) and with the
\* master's id, and no entry in the projection of an earlier month.
C1_MonthlyProjection ==
    \A idx \in TargetMonths :
        LET p == ProjectTagged(state.transactions, YearOf(idx), MonthOf(idx))
        IN  \A i \in 1..Len(state.transactions) :
        LET t == state.transactions[i]
            mine == EntriesOf(p, i)
        IN  IsMonthly(t) =>
                IF idx >= AnchorIndex(t)
                THEN /\ Cardinality(mine) = 1
                     /\ \A k \in mine :
                           /\ p[k].tx.date.D = Min(t.date.D, DaysInMonth(YearOf(idx), MonthOf(idx)))
                           /\ p[k].tx.id = t.id
                ELSE mine = {}

\* a master anchored on 31 January 2024 is shown on 29 February 2024
C1_Witness ==
    /\ getFullYear(currentDate) = 2024 /\ getMonth(currentDate) = 1
    /\ \E k \in 1..Len(currentMonthTagged) :
          LET e == currentMonthTagged[k]
              t == state.transactions[e.src]
          IN  IsMonthly(t) /\ t.date.M = 1 /\ t.date.D = 31 /\ e.tx.date.D = 29 /\ e.tx.id = t.id

\* C2: a non-recurring master appears in the projection of a target month if
\* and only if its date lies in that year and month.
C2_RegularOnlyInOwnMonth ==
    \A idx \in TargetMonths :
        LET p == ProjectTagged(state.transactions, YearOf(idx), MonthOf(idx))
        IN  \A i \in 1..Len(state.transactions) :
        LET t == state.transactions[i]
            mine == EntriesOf(p, i)
        IN  ~t.isRecurring =>
                /\ (mine # {}) <=> (idx = AnchorIndex(t))
                /\ \A k \in mine : p[k].tx = t

\* a one-off master of February is shown in February while the store holds
\* one; it is absent from the view of another month
C2_Witness ==
    /\ \E k \in 1..Len(currentMonthTagged) : ~currentMonthTagged[k].tx.isRecurring
    /\ \E i \in 1..Len(state.transactions) :
          /\ ~state.transactions[i].isRecurring
          /\ AnchorIndex(state.transactions[i]) # MonthIndex(getFullYear(currentDate), getMonth(currentDate))

\* C3: after a delete, no projection of any target month has an entry with
\* the deleted id.
C3_DeletedGoneEverywhere ==
    lastOp.op = "delete" =>
        \A idx \in TargetMonths :
            LET p == Project(state.transactions, YearOf(idx), MonthOf(idx))
            IN  \A k \in 1..Len(p) : p[k].id # lastOp.id

\* a delete has run and left another master in the store
C3_Witness == lastOp.op = "delete" /\ Len(state.transactions) > 0

\* lexicographic order of two ISO dates
IsoLess(a, b) ==
    LET x == << a.Y, a.M, a.D, a.h, a.m, a.s, a.ms >>
        y == << b.Y, b.M, b.D, b.h, b.m, b.s, b.ms >>
    IN  \E n \in 1..7 : x[n] < y[n] /\ \A j \in 1..(n - 1) : x[j] = y[j]

\* C8: every projection is sorted by descending effective date (the
\* projected date of a monthly recurring entry).
C8_SortedDescending ==
    \A idx \in TargetMonths :
        LET p == Project(state.transactions, YearOf(idx), MonthOf(idx))
        IN  \A k \in 1..(Len(p) - 1) : ~IsoLess(p[k].date, p[k + 1].date)

\* a monthly entry projected onto the 29th precedes a one-off of the 15th,
\* although its anchor (31 January) is the earlier date
C8_Witness ==
    \E k \in 1..(Len(currentMonthTagged) - 1) :
        LET e == currentMonthTagged[k]
            f == currentMonthTagged[k + 1]
        IN  /\ IsMonthly(e.tx) /\ ~f.tx.isRecurring
            /\ IsoLess(f.tx.date, e.tx.date)
            /\ IsoLess(state.transactions[e.src].date, f.tx.date)

\* C9 as claimed: entries with equal effective dates are in the order of
\* their masters in the stored list.
C9_TiesInStoredOrder ==
    \A idx \in TargetMonths :
        LET p == ProjectTagged(state.transactions, YearOf(idx), MonthOf(idx))
        IN  \A k, l \in 1..Len(p) :
                (k < l /\ p[k].tx.date = p[l].tx.date) => p[k].src < p[l].src

\* C9 as amended: of two entries with equal effective dates a one-off entry
\* precedes a recurring one; two one-off entries, and two recurring entries,
\* are in the order of their masters in the stored list.
C9_TiesRegularFirst ==
    \A idx \in TargetMonths :
        LET p == ProjectTagged(state.transactions, YearOf(idx), MonthOf(idx))
        IN  \A k, l \in 1..Len(p) :
                (k < l /\ p[k].tx.date = p[l].tx.date) =>
                    \/ ~p[k].tx.isRecurring /\ p[l].tx.isRecurring
                    \/ /\ p[k].tx.isRecurring = p[l].tx.isRecurring
                       /\ p[k].src < p[l].src

\* a recurring master stored before a one-off master is shown after it, both
\* having the same effective date
C9_Witness ==
    \E k, l \in 1..Len(currentMonthTagged) :
        /\ k < l
        /\ currentMonthTagged[k].tx.date = currentMonthTagged[l].tx.date
        /\ ~currentMonthTagged[k].tx.isRecurring
        /\ currentMonthTagged[l].tx.isRecurring
        /\ currentMonthTagged[l].src < currentMonthTagged[k].src

\* C10: a recurring master with recurrence daily, weekly or yearly appears in
\* the projection of a target month if and only if that month is the
\* anchor's own month, and then as the master itself.
C10_OtherFrequenciesOnlyInAnchorMonth ==
    \A idx \in TargetMonths :
        LET p == ProjectTagged(state.transactions, YearOf(idx), MonthOf(idx))
        IN  \A i \in 1..Len(state.transactions) :
        LET t == state.transactions[i]
            mine == EntriesOf(p, i)
        IN  (t.isRecurring /\ t.recurrence \in {"daily", "weekly", "yearly"}) =>
                /\ (mine # {}) <=> (idx = AnchorIndex(t))
                /\ Cardinality(mine) <= 1
                /\ \A k \in mine : p[k].tx = t

\* the view of February holds a weekly master anchored in January and does
\* not show it, and shows a yearly master anchored in February
C10_Witness ==
    /\ \E k \in 1..Len(currentMonthTagged) :
          /\ currentMonthTagged[k].tx.isRecurring
          /\ currentMonthTagged[k].tx.recurrence = "yearly"
    /\ \E i \in 1..Len(state.transactions) :
          /\ state.transactions[i].isRecurring
          /\ state.transactions[i].recurrence = "weekly"
          /\ AnchorIndex(state.transactions[i]) < MonthIndex(getFullYear(currentDate), getMonth(currentDate))
          /\ EntriesOf(currentMonthTagged, i) = {}

----------------------------------------------------------------------------
(* Properties of the mutation handlers *)

\* a step of handleSaveTransaction that updated the master(s) being edited
IsUpdateStep == isAddModalOpen /\ ~isAddModalOpen' /\ Truthy(editingId) /\ lastOp'.op = "update"

\* C4 as claimed: after an update that leaves a monthly recurring master with
\* amount a, the projection of every target month at or after its anchor
\* month has exactly one entry with the master's id, carrying amount a; the
\* update adds no master and changes no id.
C4_UpdatePropagates ==
    [][ IsUpdateStep =>
          /\ Len(state'.transactions) = Len(state.transactions)
          /\ \A i \in 1..Len(state.transactions) :
                state'.transactions[i].id = state.transactions[i].id
          /\ \A i \in 1..Len(state'.transactions) :
                LET t == state'.transactions[i]
                IN  (t.id = editingId /\ IsMonthly(t)) =>
                        \A idx \in TargetMonths :
                            idx >= AnchorIndex(t) =>
                                LET q == Project(state'.transactions, YearOf(idx), MonthOf(idx))
                                    hits == { k \in 1..Len(q) : q[k].id = t.id }
                                IN  /\ Cardinality(hits) = 1
                                    /\ \A k \in hits : q[k].amount = parseFloat(amount)
      ]_vars

\* C5: a save of an edit rewrites the master(s) whose id is the id of the row
\* the edit was started from, with the values of the form, and leaves their
\* id and stored date as they were; no step other than a create or a delete
\* changes the id or the date of any master.
C5_EditKeepsAnchor ==
    [][ /\ (~isAddModalOpen /\ isAddModalOpen' /\ Truthy(editingId')) =>
              \E k \in 1..Len(currentMonthTransactions) :
                  currentMonthTransactions[k].id = editingId'
        /\ IsUpdateStep =>
              /\ \E i \in 1..Len(state.transactions) : state.transactions[i].id = editingId
              /\ \A i \in 1..Len(state.transactions) :
                    LET t == state.transactions[i]
                        u == state'.transactions[i]
                    IN  IF t.id = editingId
                        THEN /\ u.amount = parseFloat(amount)
                             /\ u.description = description
                             /\ u.isRecurring = isRecurring
                             /\ u.type = txType
                        ELSE u = t
        /\ Len(state'.transactions) = Len(state.transactions) =>
              \A i \in 1..Len(state.transactions) :
                  /\ state'.transactions[i].id = state.transactions[i].id
                  /\ state'.transactions[i].date = state.transactions[i].date
      ]_vars

\* an edit started from a projected row, whose date is not the stored date of
\* its master, has been saved and has changed the master's amount
C5_Witness ==
    /\ lastOp.op = "update"
    /\ \E k \in 1..Len(currentMonthTagged) :
          LET e == currentMonthTagged[k]
              t == state.transactions[e.src]
          IN  /\ t.id = lastOp.id
              /\ IsMonthly(t)
              /\ AnchorIndex(t) < MonthIndex(getFullYear(currentDate), getMonth(currentDate))
              /\ e.tx.date # t.date
              /\ t.amount = 75

Distinct(seq) == \A i, j \in 1..Len(seq) : i # j => seq[i].id # seq[j].id

\* C6 as claimed: the ids of the masters are pairwise distinct, and so are
\* the ids of the categories.
C6_IdsDistinct == Distinct(state.transactions) /\ Distinct(state.categories)

----------------------------------------------------------------------------
(* The advice effect *)

NextAdvice ==
    \/ \E ids \in [1..MaxTemplateCats -> Ids] : handleTemplateSelect("student", ids)
    \/ completeOnboarding(0, "$")
    \/ \E o \in {-1, 1} : changeMonth(o)
    \/ Tick
    \/ TimerFire
    \/ \E r \in 1..MaxRequests : AdviceResolve(r)
    \/ \E r \in 1..MaxRequests : AdviceFails(r)

SpecAdvice == Init /\ [][NextAdvice]_vars

\* C7 as claimed: once every advice request issued has been answered, the
\* advice shown is the answer to the request issued last, also when an
\* earlier request was answered after it.
C7_LatestRequestWins ==
    (issued >= 2 /\ inflight = {}) => aiAdvice \in {AdviceOf(issued), Placeholder}

----------------------------------------------------------------------------
(* Properties of what the form writes *)

\* C11 as claimed: a master with isRecurring false has recurrence 'none', and
\* a master with isRecurring true has one of the four frequencies, never
\* 'none' (every master of this specification was written by a create or an
\* update).
C11_RecurrenceMatchesFlag ==
    \A i \in 1..Len(state.transactions) :
        LET t == state.transactions[i]
        IN  IF t.isRecurring THEN t.recurrence \in Frequencies ELSE t.recurrence = "none"

\* a step of handleSaveTransaction that created a master (it is put first)
IsCreateStep ==
    /\ isAddModalOpen /\ ~isAddModalOpen' /\ ~Truthy(editingId)
    /\ Len(state'.transactions) = Len(state.transactions) + 1

SameMonth(a, b) == getMonth(a) = getMonth(b) /\ getFullYear(a) = getFullYear(b)

\* C13 as claimed: a master created while the viewed month is not the real
\* current month is dated the 15th of the viewed month at 00:00:00.000; one
\* created while the real current month is viewed is dated the current instant.
C13_CreatedAtMidnight ==
    [][ IsCreateStep =>
          LET d == state'.transactions[1].date
          IN  IF SameMonth(currentDate, now)
              THEN d = toISOString(now)
              ELSE d = [Y |-> getFullYear(currentDate), M |-> getMonth(currentDate) + 1, D |-> 15,
                        h |-> 0, m |-> 0, s |-> 0, ms |-> 0]
      ]_vars

\* C13 amended: a master created while the viewed month is not the real
\* current month is dated the 15th of the viewed month at the time of day the
\* view date carries (hours, minutes, seconds and milliseconds of the start
\* of the application); one created while the real current month is viewed is
\* dated the current instant.
C13_CreatedOn15thKeepsTimeOfDay ==
    [][ IsCreateStep =>
          LET d == state'.transactions[1].date
              v == toISOString(currentDate)
          IN  IF SameMonth(currentDate, now)
              THEN d = toISOString(now)
              ELSE /\ d.Y = getFullYear(currentDate) /\ d.M = getMonth(currentDate) + 1 /\ d.D = 15
                   /\ << d.h, d.m, d.s, d.ms >> = << v.h, v.m, v.s, v.ms >>
      ]_vars

\* a master has been created while another month than the real current one
\* was viewed: it is first in the store and dated the 15th of that month
C13_Witness ==
    /\ lastOp.op = "create"
    /\ Len(state.transactions) > 0
    /\ state.transactions[1].id = lastOp.id
    /\ state.transactions[1].date.D = 15
    /\ state.transactions[1].date.M # getMonth(now) + 1

\* C12: every master of type income has the categoryId "income" (every
\* master of this specification was written by a create or an update).
C12_IncomeSentinel ==
    \A i \in 1..Len(state.transactions) :
        state.transactions[i].type = "income" => state.transactions[i].categoryId = "income"

\* an income has been created while the form had a category of the list
\* selected, and an expense has been edited into an income
C12_Witness ==
    /\ lastOp.op = "update"
    /\ Len(state.transactions) = 2
    /\ \A i \in 1..2 : state.transactions[i].type = "income"
    /\ state.transactions[1].id # state.transactions[2].id
    /\ Len(state.categories) > 0

HasMaster(id) == \E i \in 1..Len(state.transactions) : state.transactions[i].id = id

\* C14: while the form is open for an id that no master carries, no step
\* changes the transaction list: neither the save of the edit nor a second
\* delete; a master deleted while its form was open is not created again.
C14_LookupMissIsNoOp ==
    [][ (isAddModalOpen /\ Truthy(editingId) /\ ~HasMaster(editingId)) =>
            state'.transactions = state.transactions ]_vars

\* the edit of a master deleted while its form was open has been saved: the
\* last write to the store is that update and no master carries its id
C14_Witness ==
    /\ lastOp.op = "update"
    /\ ~HasMaster(lastOp.id)
    /\ ~isAddModalOpen

\* C15 as claimed: a step that removes a master removes exactly one, leaves
\* the others as they were and in their order, and leaves the categories
\* alone; a step that changes the categories leaves the transaction list alone.
C15_NoCascade ==
    [][ /\ Len(state'.transactions) < Len(state.transactions) =>
              /\ state'.categories = state.categories
              /\ \E k \in 1..Len(state.transactions) :
                    state'.transactions =
                        SubSeq(state.transactions, 1, k - 1)
                            \o SubSeq(state.transactions, k + 1, Len(state.transactions))
        /\ state'.categories # state.categories => state'.transactions = state.transactions
      ]_vars

\* C16 as claimed: a submit of the form with an empty amount or an empty
\* description leaves the transaction list unchanged (a step that closes the
\* form is a submit or a dismissal).
C16_EmptyFieldRejected ==
    [][ (isAddModalOpen /\ ~isAddModalOpen' /\ (amount = "" \/ description = "")) =>
            state'.transactions = state.transactions ]_vars

----------------------------------------------------------------------------
(* Properties of the dashboard *)

ViewedIndex == MonthIndex(getFullYear(currentDate), getMonth(currentDate))

\* the number of times a master counts in the viewed month
TimesShown(t) ==
    IF IsMonthly(t) THEN (IF AnchorIndex(t) <= ViewedIndex THEN 1 ELSE 0)
    ELSE (IF AnchorIndex(t) = ViewedIndex THEN 1 ELSE 0)

RECURSIVE SumSeq(_)
SumSeq(q) == IF q = << >> THEN 0 ELSE Head(q) + SumSeq(Tail(q))

\* the sum over the masters of a type of amount times TimesShown
ShownSum(type) ==
    SumSeq([i \in 1..Len(state.transactions) |->
               IF state.transactions[i].type = type
               THEN state.transactions[i].amount * TimesShown(state.transactions[i])
               ELSE 0])

\* C17: totalIncome is the monthly income baseline plus the amounts of the
\* income masters shown in the viewed month, totalExpenses the amounts of the
\* expense masters shown, remaining their difference; a monthly recurring
\* master counts once in every month from its anchor month on.
C17_Totals ==
    /\ totalIncome = state.monthlyIncome + ShownSum("income")
    /\ totalExpenses = ShownSum("expense")
    /\ remainingBudget = state.monthlyIncome + ShownSum("income") - ShownSum("expense")

\* the month after the anchor month is viewed, the baseline is positive, a
\* recurring income counts and a one-off expense of the anchor month does not
C17_Witness ==
    /\ ViewedIndex > MonthIndex(getFullYear(now), getMonth(now))
    /\ state.monthlyIncome > 0
    /\ Len(state.transactions) = 2
    /\ \E i, j \in 1..2 :
          /\ state.transactions[i].type = "income" /\ IsMonthly(state.transactions[i])
          /\ state.transactions[j].type = "expense" /\ ~state.transactions[j].isRecurring
    /\ totalIncome > state.monthlyIncome
    /\ totalExpenses = 0

\* C18: spendPercentage is 0 when totalIncome is 0, is the quotient
\* totalExpenses / totalIncome * 100 when totalIncome is positive, and never
\* has a zero denominator.
C18_SpendPercentage ==
    /\ spendPercentage.d # 0
    /\ totalIncome = 0 => spendPercentage.n = 0
    /\ totalIncome > 0 => spendPercentage.n * totalIncome = totalExpenses * 100 * spendPercentage.d

\* no income at all while there are expenses
C18_Witness == totalIncome = 0 /\ totalExpenses > 0 /\ spendPercentage = Zero

\* what a category spent in the viewed month: the expense masters shown that
\* carry its id
SpentIn(cat) ==
    SumSeq([i \in 1..Len(state.transactions) |->
               IF state.transactions[i].type = "expense" /\ state.transactions[i].categoryId = cat.id
               THEN state.transactions[i].amount * TimesShown(state.transactions[i])
               ELSE 0])

HasLimit(cat) == "budgetLimit" \in DOMAIN cat /\ cat.budgetLimit > 0

\* the band of percentOfLimit as the claim computes it: of the limit when
\* there is one, else of the total expenses, else 0
BandOf(cat) ==
    LET spent == SpentIn(cat)
        num == IF HasLimit(cat) \/ ShownSum("expense") > 0 THEN spent * 100 ELSE 0
        den == IF HasLimit(cat) THEN cat.budgetLimit
               ELSE IF ShownSum("expense") > 0 THEN ShownSum("expense") ELSE 1
    IN  IF num > 100 * den THEN "over-limit"
        ELSE IF num > 85 * den THEN "near-limit"
        ELSE "normal"

\* C19 as claimed: the status of every category is the band of its
\* percentOfLimit.
C19_StatusBands ==
    \A k \in 1..Len(state.categories) :
        CategoryStatus(currentMonthTransactions, state.categories[k]) = BandOf(state.categories[k])

\* C19 amended: the status of a category with a positive limit is the band of
\* spent / limit * 100; a category without a limit is always normal.
C19_StatusBandsWithLimit ==
    \A k \in 1..Len(state.categories) :
        LET cat == state.categories[k]
        IN  CategoryStatus(currentMonthTransactions, cat) =
                (IF HasLimit(cat) THEN BandOf(cat) ELSE "normal")

\* a category with a limit has spent exactly its limit: near the limit, not
\* over it
C19_Witness ==
    /\ Len(state.categories) = 2
    /\ HasLimit(state.categories[1])
    /\ CategoryStatus(currentMonthTransactions, state.categories[1]) = "near-limit"
    /\ SpentIn(state.categories[1]) = state.categories[1].budgetLimit

\* the positions of the projected list that pass the three filters
Passing ==
    { k \in 1..Len(currentMonthTransactions) :
        LET t == currentMonthTransactions[k]
        IN  /\ filterType = "all" \/ t.type = filterType
            /\ filterCategory = "all" \/ t.categoryId = filterCategory
            /\ filterRecurrence = "all" \/ (filterRecurrence = "recurring") = t.isRecurring }

\* C20: the filtered list is the projected list restricted to the positions
\* that pass the three filters, in the same order; with the type filter
\* 'income' it holds income entries only; with all filters 'all' it is the
\* projected list.
C20_FilterIsSubsequence ==
    /\ Len(filteredTransactions) = Cardinality(Passing)
    /\ \A j \in 1..Len(filteredTransactions) :
          \E k \in Passing :
              /\ Cardinality({ k2 \in Passing : k2 <= k }) = j
              /\ filteredTransactions[j] = currentMonthTransactions[k]
    /\ filterType = "income" =>
          \A j \in 1..Len(filteredTransactions) : filteredTransactions[j].type = "income"
    /\ (filterType = "all" /\ filterCategory = "all" /\ filterRecurrence = "all") =>
          filteredTransactions = currentMonthTransactions

\* the type filter is 'income' and drops the first of two entries
C20_Witness ==
    /\ filterType = "income"
    /\ Len(currentMonthTransactions) = 2
    /\ currentMonthTransactions[1].type = "expense"
    /\ filteredTransactions = << currentMonthTransactions[2] >>

----------------------------------------------------------------------------
(* Properties of voice input *)

\* a parsed voice answer has just been applied to the form
IsVoiceStep == voiceDraft' # NoDraft /\ voiceDraft' # voiceDraft

\* C22: when a voice parse of an expense returns a category name that
\* matches no existing category (case-insensitively), exactly one new
\* category with that name and a fresh id is appended and the form selects
\* it; when the name matches an existing category, no category is added
\* and the form selects the existing category.
C22_VoiceCreatesOrReusesCategory ==
    [][ (IsVoiceStep /\ voiceDraft'.type = "expense" /\ voiceDraft'.categoryName # "")
        => LET name == voiceDraft'.categoryName
               old == state.categories
               new == state'.categories
           IN  IF FindCategory(old, name) = 0
               THEN /\ Len(new) = Len(old) + 1
                    /\ SubSeq(new, 1, Len(old)) = old
                    /\ new[Len(new)].name = name
                    /\ \A j \in 1..Len(old) : old[j].id # new[Len(new)].id
                    /\ selectedCategory' = new[Len(new)].id
               ELSE /\ new = old
                    /\ \E j \in 1..Len(old) :
                          /\ toLowerCase(old[j].name) = toLowerCase(name)
                          /\ selectedCategory' = old[j].id ]_vars

----------------------------------------------------------------------------
(* Properties of persistence *)

\* C23: after every change of the in-memory state (a transaction created,
\* updated or deleted, a category added, edited or deleted, the income,
\* the currency or the theme changed) the saved item has been rewritten
\* and is the serialisation of the current in-memory state: every property
\* of the state and of its masters has the saved value.
C23_PersistedIsCurrent ==
    /\ localStorage = JSONStringify(state)
    /\ \A f \in DOMAIN state \ {"transactions"} : localStorage[f] = state[f]
    /\ Len(localStorage.transactions) = Len(state.transactions)
    /\ \A i \in 1..Len(state.transactions) :
          \A f \in DOMAIN localStorage.transactions[i] :
              localStorage.transactions[i][f] = state.transactions[i][f]

\* two masters are stored, a category was edited after the theme, the
\* currency and the income were changed
C23_Witness ==
    /\ Len(state.transactions) = 2
    /\ state.theme = "dark"
    /\ state.currency = "€"
    /\ state.monthlyIncome = 100
    /\ lastOp.op = "editCategory"

\* C24: at start-up, for a saved object holding any subset of the
\* properties of the state, each property of the initial state has the
\* saved value when the saved object has it and the default value when it
\* has not; with nothing saved the initial state is the default state; in
\* both cases the first render has its state: every property is there and
\* the month view can be computed.
C24_StartupMerge ==
    lastOp.op = "load"
    => /\ IF lastOp.item = << >>
          THEN state = defaultState
          ELSE \A f \in DOMAIN defaultState :
                  state[f] = (IF f \in DOMAIN lastOp.item[1]
                              THEN lastOp.item[1][f] ELSE defaultState[f])
       /\ DOMAIN defaultState \subseteq DOMAIN state
       /\ Len(currentMonthTransactions) <= Len(state.transactions)

\* started over an item that holds the transactions and the theme and not
\* the other properties
C24_Witness ==
    /\ lastOp.op = "load"
    /\ lastOp.item # << >>
    /\ DOMAIN lastOp.item[1] = {"transactions", "theme"}
    /\ Len(state.transactions) = 1
    /\ ~state.hasOnboarded

----------------------------------------------------------------------------
(* Properties of the advice effect *)

\* request r has just been answered
Answered(r) == r \in inflight /\ inflight' = inflight \ {r}

\* C25: when the API call of an advice request fails, getFinancialAdvice
\* resolves with the placeholder instead of rejecting: whenever a request
\* is answered the effect stores the advice of that request or the
\* placeholder and clears isLoadingAdvice; and isLoadingAdvice is never
\* left set with no timer pending and no request in flight.
C25_FailureStoresPlaceholder ==
    /\ [][ \A r \in 1..MaxRequests :
              Answered(r) => /\ aiAdvice' \in {AdviceOf(r), Placeholder}
                             /\ ~isLoadingAdvice' ]_vars
    /\ [](isLoadingAdvice => (timer \/ inflight # {}))

\* the placeholder of a failed call is shown and nothing is loading
C25_Witness ==
    /\ aiAdvice = Placeholder
    /\ ~isLoadingAdvice
    /\ issued >= 1
    /\ inflight = {}

\* C28: isLoadingAdvice is true in every state in which an advice request
\* is scheduled (the debounce timer is pending) or in flight.
C28_LoadingWhileOutstanding ==
    (timer \/ inflight # {}) => isLoadingAdvice

\* a step of handleSaveTransaction that saved a form filled by a voice result
IsVoiceSaveStep ==
    /\ isAddModalOpen /\ ~isAddModalOpen'
    /\ voiceDraft # NoDraft /\ voiceDraft' = NoDraft

\* C26 as claimed: saving a draft filled by voice input puts one new master
\* in front of the masters and leaves every existing master as it was,
\* whatever came before (an edit form opened and dismissed included).
C26_VoiceSaveAddsMaster ==
    [][ IsVoiceSaveStep =>
          /\ Len(state'.transactions) = Len(state.transactions) + 1
          /\ \A i \in 1..Len(state.transactions) :
                state'.transactions[i + 1] = state.transactions[i] ]_vars

\* the month of a date, counted in months
MonthIndexOf(dt) == MonthIndex(getFullYear(dt), getMonth(dt))

\* C27 as claimed: changeMonth(+1) moves the view to exactly the next
\* calendar month and changeMonth(-1) to exactly the previous one, whatever
\* the day of the month of the current date is.
C27_ChangeMonthMovesOneMonth ==
    [][ \A offset \in {-1, 1} :
          currentDate' = setMonth(currentDate, getMonth(currentDate) + offset)
              => MonthIndexOf(currentDate') = MonthIndexOf(currentDate) + offset ]_vars

\* the ids of the categories of a store
CategoryIds(st) == { st.categories[i].id : i \in 1..Len(st.categories) }

\* C29 as claimed: every expense master written by a create or an update of
\* handleSaveTransaction carries the id of a category that is in the store
\* at the time of the save, never "" and never "income".
C29_ExpenseHasExistingCategory ==
    [][ (IsCreateStep \/ IsUpdateStep) =>
          \A i \in 1..Len(state'.transactions) :
              LET t == state'.transactions[i]
              IN  (t.id = lastOp'.id /\ t.type = "expense")
                      => t.categoryId \in CategoryIds(state') ]_vars

DistinctCategoryIds ==
    \A i, j \in 1..Len(state.categories) :
        i # j => state.categories[i].id # state.categories[j].id

\* the sum of the spent figures of the rows of Category Budgets
SpentSum ==
    SumSeq([i \in 1..Len(state.categories) |->
               SpentOf(currentMonthTransactions, state.categories[i])])

\* the amounts of the viewed month's expenses whose categoryId is the id of
\* no category
DanglingExpenses ==
    SumAmounts(SelectSeq(currentMonthTransactions, LAMBDA t :
        t.type = "expense" /\ t.categoryId \notin CategoryIds(state)))

\* C30: while the category ids are distinct, totalExpenses of the viewed
\* month is the sum of the categories' spent figures plus the amounts of the
\* expenses whose categoryId matches no category: the spent figures sum to
\* totalExpenses when every expense has an existing category, and an expense
\* without one counts in totalExpenses and in no spent figure.
C30_SpentSumsToExpenses ==
    DistinctCategoryIds => totalExpenses = SpentSum + DanglingExpenses

\* an expense counted in a category of the store and an expense whose
\* category was deleted
C30_Witness ==
    /\ DistinctCategoryIds
    /\ Len(state.categories) >= 1
    /\ SpentSum > 0
    /\ DanglingExpenses > 0
    /\ totalExpenses = SpentSum + DanglingExpenses

TypeOK ==
    /\ Len(state.transactions) <= MaxTx
    /\ isLoadingAdvice \in BOOLEAN

====
